---- MODULE Spec2Model ----
(***************************************************************************)
(* Model of the Tkinter calculator of src/main.py: CalculatorOperations,   *)
(* CalculatorModel, the display of CalculatorView and the button handlers  *)
(* of CalculatorController.                                                *)
(*                                                                         *)
(* Strings are sequences of one-character strings (<<"8", ".", "0">> is    *)
(* "8.0").  A Python float is the decimal number (-1)^neg * m * 10^e with  *)
(* m free of trailing zeros; float() and str() are modelled by what they   *)
(* do on these strings.  The arithmetic is modelled where IEEE-754 double   *)
(* arithmetic is decimal arithmetic: on operands a double holds exactly    *)
(* (whole numbers and binary fractions such as 0.5) with a result of at    *)
(* most 9 decimal digits, which str() then prints digit for digit.  Any    *)
(* other calculation (0.1 + 0.2, 1 / 3) lies outside the model.            *)
(***************************************************************************)
EXTENDS Integers, Sequences, FiniteSets, TLC

\* ------------------------------------------------------------- bounds
\* Every sequence of at most MaxClicks button clicks since the calculator
\* was last reset is explored, and beyond that the sequences of Scripts.
MaxClicks == 3

\* ------------------------------------------------------------ buttons
\* CalculatorView.create_buttons: the texts for which text.isdigit() holds.
Digits == {"0", "1", "2", "3", "4", "5", "6", "7", "8", "9"}

\* The keys of CalculatorOperations.operations; "*" and "/" are written for
\* the multiplication and division signs of the buttons, and "+/-" for the
\* plus-minus sign of the sign change button.
Operators == {"+", "-", "*", "/"}

\* current_operation = None
None == "None"

\* ------------------------------------------------------------- floats
DigitVal(c) ==
  CASE c = "0" -> 0 [] c = "1" -> 1 [] c = "2" -> 2 [] c = "3" -> 3
    [] c = "4" -> 4 [] c = "5" -> 5 [] c = "6" -> 6 [] c = "7" -> 7
    [] c = "8" -> 8 [] c = "9" -> 9

DigitChar(n) == CHOOSE c \in Digits : DigitVal(c) = n

RECURSIVE Pow10(_)
Pow10(n) == IF n = 0 THEN 1 ELSE 10 * Pow10(n - 1)

\* The number of decimal digits of m (0 has none).
RECURSIVE NumDigits(_)
NumDigits(m) == IF m = 0 THEN 0 ELSE 1 + NumDigits(m \div 10)

\* The float (-1)^neg * m * 10^e, m without trailing zeros; a zero keeps
\* its sign (Python has 0.0 and -0.0).
RECURSIVE Norm(_, _, _)
Norm(neg, m, e) ==
  IF m = 0 THEN [neg |-> neg, m |-> 0, e |-> 0]
  ELSE IF m % 10 = 0 THEN Norm(neg, m \div 10, e + 1)
  ELSE [neg |-> neg, m |-> m, e |-> e]

Zero == [neg |-> FALSE, m |-> 0, e |-> 0]

\* ---------------------------------------------------------- str(float)
\* The decimal digits of m > 0, most significant first.
RECURSIVE NatDigits(_)
NatDigits(m) ==
  IF m < 10 THEN <<DigitChar(m)>>
  ELSE Append(NatDigits(m \div 10), DigitChar(m % 10))

RECURSIVE Zeros(_)
Zeros(n) == IF n <= 0 THEN <<>> ELSE <<"0">> \o Zeros(n - 1)

\* str(x) of a Python float (float.__repr__): the shortest digits that
\* round-trip, with ".0" added to a whole number, and in exponent notation
\* when the decimal point lies more than 16 places right or 4 places left
\* of the first digit.
str(x) ==
  LET sign  == IF x.neg THEN <<"-">> ELSE <<>>
      ds    == NatDigits(x.m)
      n     == Len(ds)
      decpt == n + x.e
      ex    == decpt - 1
      aex   == IF ex < 0 THEN -ex ELSE ex
      expo  == <<"e", IF ex < 0 THEN "-" ELSE "+">>
                 \o (IF aex < 10 THEN <<"0">> ELSE <<>>) \o NatDigits(aex)
  IN  IF x.m = 0 THEN sign \o <<"0", ".", "0">>
      ELSE IF decpt > 16 \/ decpt < -3
        THEN sign \o <<ds[1]>>
               \o (IF n > 1 THEN <<".">> \o SubSeq(ds, 2, n) ELSE <<>>) \o expo
      ELSE IF decpt <= 0 THEN sign \o <<"0", ".">> \o Zeros(-decpt) \o ds
      ELSE IF decpt >= n THEN sign \o ds \o Zeros(decpt - n) \o <<".", "0">>
      ELSE sign \o SubSeq(ds, 1, decpt) \o <<".">> \o SubSeq(ds, decpt + 1, n)

\* ---------------------------------------------------------- float(str)
AllDigits(s) == \A i \in 1..Len(s) : s[i] \in Digits

RECURSIVE ToNat(_)
ToNat(s) ==
  IF s = <<>> THEN 0
  ELSE 10 * ToNat(SubSeq(s, 1, Len(s) - 1)) + DigitVal(s[Len(s)])

\* The first position of character c in s, 0 when there is none.
IndexOf(s, c) ==
  IF \E i \in 1..Len(s) : s[i] = c
    THEN CHOOSE i \in 1..Len(s) : s[i] = c /\ \A j \in 1..(i - 1) : s[j] # c
    ELSE 0

\* float(s): [ok |-> FALSE] stands for the ValueError "could not convert
\* string to float".  The grammar is [sign] digits [. digits] [e [sign]
\* digits] with at least one mantissa digit; the display never holds the
\* other spellings float() accepts (blanks, "inf", "nan", "_", "E").
float(s) ==
  LET sgn  == Len(s) > 0 /\ s[1] \in {"-", "+"}
      body == IF sgn THEN Tail(s) ELSE s
      ePos == IndexOf(body, "e")
      mant == IF ePos = 0 THEN body ELSE SubSeq(body, 1, ePos - 1)
      expo == IF ePos = 0 THEN <<>> ELSE SubSeq(body, ePos + 1, Len(body))
      dPos == IndexOf(mant, ".")
      ip   == IF dPos = 0 THEN mant ELSE SubSeq(mant, 1, dPos - 1)
      fp   == IF dPos = 0 THEN <<>> ELSE SubSeq(mant, dPos + 1, Len(mant))
      esgn == Len(expo) > 0 /\ expo[1] \in {"-", "+"}
      edig == IF esgn THEN Tail(expo) ELSE expo
      ok   == /\ AllDigits(ip)
              /\ AllDigits(fp)
              /\ Len(ip) + Len(fp) > 0
              /\ ePos = 0 \/ (Len(edig) > 0 /\ AllDigits(edig))
      ex   == IF esgn /\ expo[1] = "-" THEN -ToNat(edig) ELSE ToNat(edig)
  IN  IF ok
        THEN [ok |-> TRUE,
              v  |-> Norm(sgn /\ s[1] = "-", ToNat(ip \o fp), ex - Len(fp))]
        ELSE [ok |-> FALSE, v |-> Zero]

\* ---------------------------------------------------------- arithmetic
\* Stands for a result outside the model: an operand that no double holds
\* exactly, a result of more than 9 digits, or a quotient with no finite
\* decimal expansion.
Beyond == [neg |-> FALSE, m |-> -1, e |-> 0]

RECURSIVE Pow5(_)
Pow5(n) == IF n = 0 THEN 1 ELSE 5 * Pow5(n - 1)

\* x is a whole number below 10^15 or a binary fraction: the double of x is
\* x itself.
IsExact(x) ==
  IF x.e >= 0 THEN NumDigits(x.m) + x.e <= 15
  ELSE x.e >= -13 /\ x.m % Pow5(-x.e) = 0

Signed(x) == IF x.neg THEN -x.m ELSE x.m

Min(i, j) == IF i < j THEN i ELSE j

\* -x
FloatNeg(x) == [x EXCEPT !.neg = ~x.neg]

\* a + b on floats; the sum of two zeros is -0.0 only if both are, and an
\* exact cancellation gives 0.0.
FloatAdd(a, b) ==
  LET e0 == Min(a.e, b.e)
      na == NumDigits(a.m) + a.e - e0
      nb == NumDigits(b.m) + b.e - e0
      s  == Signed(a) * Pow10(a.e - e0) + Signed(b) * Pow10(b.e - e0)
  IN  IF ~IsExact(a) \/ ~IsExact(b) \/ na > 8 \/ nb > 8 THEN Beyond
      ELSE IF s = 0 THEN Norm(a.m = 0 /\ b.m = 0 /\ a.neg /\ b.neg, 0, 0)
      ELSE Norm(s < 0, IF s < 0 THEN -s ELSE s, e0)

\* a * b on floats.
FloatMul(a, b) ==
  IF ~IsExact(a) \/ ~IsExact(b) \/ NumDigits(a.m) + NumDigits(b.m) > 9
    THEN Beyond
    ELSE Norm(a.neg # b.neg, a.m * b.m, a.e + b.e)

\* a / b on floats, b # 0.
FloatDiv(a, b) ==
  LET ks == {k \in 0..(9 - NumDigits(a.m)) : (a.m * Pow10(k)) % b.m = 0}
      k  == CHOOSE i \in ks : \A j \in ks : i <= j
  IN  IF ~IsExact(a) \/ ~IsExact(b) \/ ks = {} THEN Beyond
      ELSE Norm(a.neg # b.neg, (a.m * Pow10(k)) \div b.m, a.e - b.e - k)

\* The result of Operation.execute: a float, or ValueError raised.
Returns(x) == [raised |-> FALSE, v |-> x]
Raises == [raised |-> TRUE, v |-> Zero]

AddOperation(a, b) == Returns(FloatAdd(a, b))

\* Mutant of SubtractOperation: b - a.
SubtractOperation_reversed(a, b) == Returns(FloatAdd(b, FloatNeg(a)))

SubtractOperation(a, b) == Returns(FloatAdd(a, FloatNeg(b)))

MultiplyOperation(a, b) == Returns(FloatMul(a, b))

DivideOperation(a, b) ==
  IF b.m = 0 THEN Raises ELSE Returns(FloatDiv(a, b))

\* CalculatorOperations.calculate
calculator_ops_calculate(operation_symbol, a, b) ==
  IF operation_symbol \notin Operators THEN Raises
  ELSE CASE operation_symbol = "+" -> AddOperation(a, b)
         [] operation_symbol = "-" -> SubtractOperation(a, b)
         [] operation_symbol = "*" -> MultiplyOperation(a, b)
         [] operation_symbol = "/" -> DivideOperation(a, b)

\* ------------------------------------------------------ CalculatorModel
\* The fields CalculatorModel.reset assigns.
reset ==
  [current_value       |-> Zero,
   stored_value        |-> Zero,
   current_operation   |-> None,
   waiting_for_operand |-> TRUE,
   display_value       |-> <<"0">>]

\* How a method ends: exc is "none" (it returns), "DivisionByZero" (the
\* ValueError of DivideOperation), "ParseError" (the ValueError of float)
\* or "beyond" (the result lies outside the bounds of the model); model is
\* the CalculatorModel it leaves.
Outcome(exc, m) == [exc |-> exc, model |-> m]

\* Mutant of input_number: the digit is put in front.
input_number_in_front(m, number) ==
  IF m.waiting_for_operand
    THEN [m EXCEPT !.display_value = <<number>>, !.waiting_for_operand = FALSE]
    ELSE [m EXCEPT !.display_value = <<number>> \o m.display_value]

input_number(m, number) ==
  IF m.waiting_for_operand
    THEN [m EXCEPT !.display_value = <<number>>, !.waiting_for_operand = FALSE]
    ELSE [m EXCEPT !.display_value = Append(m.display_value, number)]

\* Mutant of calculate_result: the operation stays pending on its result.
calculate_result_repeats(m, current, result) ==
  IF ~current.ok THEN Outcome("ParseError", m)
  ELSE IF result.raised THEN Outcome("DivisionByZero", m)
  ELSE IF result.v = Beyond THEN Outcome("beyond", m)
  ELSE Outcome("none", [m EXCEPT !.display_value = str(result.v)])

\* Mutant of calculate_result: the result does not wait for an operand.
calculate_result_entered(m, current, result) ==
  IF ~current.ok THEN Outcome("ParseError", m)
  ELSE IF result.raised THEN Outcome("DivisionByZero", m)
  ELSE IF result.v = Beyond THEN Outcome("beyond", m)
  ELSE Outcome("none",
         [m EXCEPT !.display_value = str(result.v),
                   !.current_operation = None,
                   !.waiting_for_operand = FALSE])

\* calculate once float(display_value) is evaluated: current is its outcome
\* and result that of calculator_ops.calculate.
calculate_result(m, current, result) ==
  IF ~current.ok THEN Outcome("ParseError", m)
  ELSE IF result.raised THEN Outcome("DivisionByZero", m)
  ELSE IF result.v = Beyond THEN Outcome("beyond", m)
  ELSE Outcome("none",
         [m EXCEPT !.display_value = str(result.v),
                   !.current_operation = None,
                   !.waiting_for_operand = TRUE])

\* Mutant of calculate_current: the operands are passed in the other order.
calculate_current_swapped(m, current) ==
  calculate_result(m, current,
    calculator_ops_calculate(m.current_operation, current.v, m.stored_value))

calculate_current(m, current) ==
  calculate_result(m, current,
    calculator_ops_calculate(m.current_operation, m.stored_value, current.v))

\* Mutant of calculate: with nothing to calculate it waits for an operand.
calculate_waits(m) ==
  IF m.current_operation # None /\ ~m.waiting_for_operand
    THEN calculate_current(m, float(m.display_value))
    ELSE Outcome("none", [m EXCEPT !.waiting_for_operand = TRUE])

calculate(m) ==
  IF m.current_operation # None /\ ~m.waiting_for_operand
    THEN calculate_current(m, float(m.display_value))
    ELSE Outcome("none", m)

\* Mutant of input_operation_store: a pending operation is not replaced.
input_operation_store_kept(c, f, operation) ==
  IF c.exc # "none" THEN c
  ELSE IF ~f.ok THEN Outcome("ParseError", c.model)
  ELSE Outcome("none",
         [c.model EXCEPT !.stored_value = f.v,
                         !.current_operation =
                           IF @ # None THEN @ ELSE operation,
                         !.waiting_for_operand = TRUE])

\* input_operation after its call of calculate: c is how that call ended
\* and f the outcome of float(display_value).
input_operation_store(c, f, operation) ==
  IF c.exc # "none" THEN c
  ELSE IF ~f.ok THEN Outcome("ParseError", c.model)
  ELSE Outcome("none",
         [c.model EXCEPT !.stored_value = f.v,
                         !.current_operation = operation,
                         !.waiting_for_operand = TRUE])

input_operation_calculated(c, operation) ==
  input_operation_store(c, float(c.model.display_value), operation)

\* Mutant of input_operation: the pending calculation is not resolved.
input_operation_unresolved(m, operation) ==
  input_operation_calculated(Outcome("none", m), operation)

input_operation(m, operation) ==
  input_operation_calculated(
    IF ~m.waiting_for_operand THEN calculate(m) ELSE Outcome("none", m),
    operation)

\* Mutant of clear: the stored operand survives.
clear_keeps_stored(m) == [reset EXCEPT !.stored_value = m.stored_value]

clear(m) == reset

\* ------------------------------------------------- CalculatorController
\* One call the controller makes on the view or on the model, with the
\* CalculatorModel and the text of CalculatorView.display_var it leaves.
Effect(call, m, view) == [call |-> call, model |-> m, view |-> view]

\* How a handler ends: exc as in Outcome, the model and the displayed text
\* it leaves, and the calls it made, in order.
Handled(exc, m, view, effects) ==
  [exc |-> exc, model |-> m, view |-> view, effects |-> effects]

\* self.view.update_display(self.model.display_value) ending a handler.
Updated(m) ==
  Handled("none", m, m.display_value,
          <<Effect("update_display", m, m.display_value)>>)

Contains(s, c) == \E i \in 1..Len(s) : s[i] = c

handle_number(m, view, number) == Updated(input_number(m, number))

\* Mutant of handle_decimal: the point is added without looking for one.
handle_decimal_unchecked(m, view) ==
  IF m.waiting_for_operand
    THEN Updated([m EXCEPT !.display_value = <<"0", ".">>,
                           !.waiting_for_operand = FALSE])
    ELSE Updated([m EXCEPT !.display_value = Append(m.display_value, ".")])

\* Mutant of handle_decimal: a point of the value shown while waiting for an
\* operand does not count.
handle_decimal_fresh(m, view) ==
  IF m.waiting_for_operand
    THEN Updated([m EXCEPT !.display_value = <<"0", ".">>,
                           !.waiting_for_operand = FALSE])
    ELSE IF ~Contains(m.display_value, ".")
      THEN Updated([m EXCEPT !.display_value = Append(m.display_value, ".")])
      ELSE Handled("none", m, view, <<>>)

handle_decimal(m, view) ==
  IF ~Contains(m.display_value, ".")
    THEN IF m.waiting_for_operand
           THEN Updated([m EXCEPT !.display_value = <<"0", ".">>,
                                  !.waiting_for_operand = FALSE])
           ELSE Updated([m EXCEPT !.display_value = Append(m.display_value, ".")])
    ELSE Handled("none", m, view, <<>>)

\* The end of a handler that called a method of the model which ended as
\* o: the exception passes through it, or the display is updated.
Finished(o, view) ==
  IF o.exc # "none" THEN Handled(o.exc, o.model, view, <<>>)
  ELSE Updated(o.model)

handle_operation(m, view, operation) ==
  Finished(input_operation(m, operation), view)

handle_equals(m, view) == Finished(calculate(m), view)

\* Mutant of handle_clear: the display is not updated.
handle_clear_silent(m, view) == Handled("none", clear(m), view, <<>>)

handle_clear(m, view) == Updated(clear(m))

\* Mutant of sign_changed: the value is not negated.
sign_unchanged(m, view, current) ==
  IF ~current.ok THEN Handled("ParseError", m, view, <<>>)
  ELSE Updated([m EXCEPT !.display_value = str(current.v)])

sign_changed(m, view, current) ==
  IF ~current.ok THEN Handled("ParseError", m, view, <<>>)
  ELSE Updated([m EXCEPT !.display_value = str(FloatNeg(current.v))])

handle_sign_change(m, view) == sign_changed(m, view, float(m.display_value))

Hundred == Norm(FALSE, 100, 0)

percentage_result(m, view, current, result) ==
  IF ~current.ok THEN Handled("ParseError", m, view, <<>>)
  ELSE IF result = Beyond THEN Handled("beyond", m, view, <<>>)
  ELSE Updated([m EXCEPT !.display_value = str(result)])

\* Mutant of percentage_current: the value is divided by 10.
percentage_current_tenth(m, view, current) ==
  percentage_result(m, view, current, FloatDiv(current.v, Norm(FALSE, 10, 0)))

percentage_current(m, view, current) ==
  percentage_result(m, view, current, FloatDiv(current.v, Hundred))

handle_percentage(m, view) ==
  percentage_current(m, view, float(m.display_value))

\* Mutant of except_cleared: the model is cleared before the error is shown.
except_cleared_first(h, cleared) ==
  Handled(h.exc, cleared, cleared.display_value,
          h.effects \o <<Effect("clear", cleared, h.view),
                         Effect("show_error", cleared, h.view),
                         Effect("update_display", cleared,
                                cleared.display_value)>>)

\* The except branch of handle_button_click, entered with the model and
\* the view as the failed handler left them: show_error, model.clear(),
\* view.update_display(model.display_value).
except_cleared(h, cleared) ==
  Handled(h.exc, cleared, cleared.display_value,
          h.effects \o <<Effect("show_error", h.model, h.view),
                         Effect("clear", cleared, h.view),
                         Effect("update_display", cleared,
                                cleared.display_value)>>)

\* Mutant of except_ValueError: the model is not cleared.
except_not_cleared(h) == except_cleared(h, h.model)

except_ValueError(h) == except_cleared(h, clear(h.model))

\* The try statement of handle_button_click around the handler that ended
\* as h.
try_except(h) ==
  IF h.exc \in {"DivisionByZero", "ParseError"} THEN except_ValueError(h)
  ELSE h

handle_button_click(m, view, text) ==
  try_except(
    IF text \in Digits THEN handle_number(m, view, text)
    ELSE IF text = "." THEN handle_decimal(m, view)
    ELSE IF text \in Operators THEN handle_operation(m, view, text)
    ELSE IF text = "=" THEN handle_equals(m, view)
    ELSE IF text = "C" THEN handle_clear(m, view)
    ELSE IF text = "+/-" THEN handle_sign_change(m, view)
    ELSE IF text = "%" THEN handle_percentage(m, view)
    ELSE Handled("none", m, view, <<>>))

\* --------------------------------------------------------------- state
VARIABLES
  model,        \* the fields of the CalculatorModel
  display_var,  \* CalculatorView.display_var, the text on the screen
  hist,         \* the buttons clicked since the calculator was last reset
  last,         \* the last click: its button, the ValueError it raised and
                \* the clicks before it
  effects,      \* the calls the controller made while handling it
  entry,        \* the digits clicked in a row since a state that waited for
                \* an operand, with the operation and operand stored then
  sign_run      \* the sign changes clicked in a row, and the display_value
                \* before the first of them

vars == <<model, display_var, hist, last, effects, entry, sign_run>>

NoEntry == [on |-> FALSE, digits |-> <<>>, operation |-> None, stored |-> Zero]

NoSignRun == [n |-> 0, before |-> <<>>]

\* main(): CalculatorModel.__init__ calls reset, create_display sets "0".
Init ==
  /\ model = reset
  /\ display_var = <<"0">>
  /\ hist = <<>>
  /\ last = [text |-> "", exc |-> "none", prior |-> <<>>]
  /\ effects = <<>>
  /\ entry = NoEntry
  /\ sign_run = NoSignRun

\* The click sequences explored beyond MaxClicks: "digit" stands for any
\* digit, "operator" for any operator, "any" for any button.
Scripts ==
  { <<"digit", "operator", "digit", "any">>,
    <<"digit", "operator", "operator", "digit", "=">>,
    <<"digit", "operator", "digit", "=", "any">>,
    <<"5", "+", "3", "=", "*", "2", "=">>,
    <<"5", "*", "4", "+", "1", "=">>,
    <<"0", ".", "0", "0", "0", "0", "1", "+/-", ".", "any">> }

Matches(text, pattern) ==
  \/ pattern = "any"
  \/ pattern = "digit" /\ text \in Digits
  \/ pattern = "operator" /\ text \in Operators
  \/ pattern = text

Explored(h) ==
  \/ Len(h) <= MaxClicks
  \/ \E s \in Scripts :
       /\ Len(h) <= Len(s)
       /\ \A i \in 1..Len(h) : Matches(h[i], s[i])

\* The digits clicked in a row after the click of text.
entered(text) ==
  IF text \notin Digits THEN NoEntry
  ELSE IF model.waiting_for_operand
    THEN [on |-> TRUE, digits |-> <<text>>,
          operation |-> model.current_operation,
          stored |-> model.stored_value]
  ELSE IF entry.on THEN [entry EXCEPT !.digits = Append(entry.digits, text)]
  ELSE NoEntry

\* The sign changes clicked in a row after the click of text, which ended
\* with exc.
sign_changes(text, exc) ==
  IF text # "+/-" \/ exc # "none" THEN NoSignRun
  ELSE IF sign_run.n = 0 THEN [n |-> 1, before |-> model.display_value]
  ELSE [sign_run EXCEPT !.n = sign_run.n + 1]

\* CalculatorView.button_click(text): the controller handles the click to
\* the end before the next one is taken.  The click ended as r: the state
\* it leaves.
clicked(text, r, reset_done) ==
  IF r.exc # "beyond" /\ (reset_done \/ Explored(Append(hist, text)))
    THEN /\ model' = r.model
         /\ display_var' = r.view
         /\ hist' = IF reset_done THEN <<>> ELSE Append(hist, text)
         /\ last' = [text |-> text, exc |-> r.exc, prior |-> hist]
         /\ effects' = r.effects
         /\ entry' = entered(text)
         /\ sign_run' = sign_changes(text, r.exc)
    ELSE FALSE

handled_click(text, r) == clicked(text, r, text = "C" \/ r.exc # "none")

button_click(text) ==
  handled_click(text, handle_button_click(model, display_var, text))

\* One action per class of buttons handle_button_click tells apart.
Number(d) ==
  /\ button_click(d)

Decimal ==
  /\ button_click(".")

Operation(op) ==
  /\ button_click(op)

Equals ==
  /\ button_click("=")

Clear ==
  /\ button_click("C")

SignChange ==
  /\ button_click("+/-")

Percentage ==
  /\ button_click("%")

Next ==
  \/ \E d \in Digits : Number(d)
  \/ Decimal
  \/ \E op \in Operators : Operation(op)
  \/ Equals
  \/ Clear
  \/ SignChange
  \/ Percentage

Spec == Init /\ [][Next]_vars

\* ==================================================================
\* Claims
\* ==================================================================
Click(text) == last'.text = text

\* A click that resolves a pending division by a right operand that
\* parses to zero.
DivisionByZeroPending ==
  /\ model.current_operation = "/"
  /\ ~model.waiting_for_operand
  /\ float(model.display_value).ok
  /\ float(model.display_value).v.m = 0

ErrorShown == \E i \in 1..Len(effects) : effects[i].call = "show_error"

\* C1: whenever Equals or an Operator is clicked with "/" pending and a
\* freshly entered right operand that parses to zero, the division by zero
\* error is signalled and the whole state is the initial one afterwards:
\* display "0", no pending operator (not even the one just clicked), stored
\* operand 0, waiting for an operand.
C1_DivisionByZeroResets ==
  [][ (DivisionByZeroPending /\ \E t \in Operators \cup {"="} : Click(t))
        => /\ last'.exc = "DivisionByZero"
           /\ ErrorShown'
           /\ model' = reset
           /\ model'.display_value = <<"0">>
           /\ model'.current_operation = None
           /\ model'.stored_value = Zero
           /\ model'.waiting_for_operand
           /\ display_var' = <<"0">> ]_vars

\* 6 / 0 = has raised the error and the calculator is reset.
C1_Witness ==
  /\ last.prior = <<"6", "/", "0">>
  /\ last.text = "="
  /\ last.exc = "DivisionByZero"
  /\ model = reset

\* The float of a whole number n.
IntFloat(n) == Norm(n < 0, IF n < 0 THEN -n ELSE n, 0)

\* x is op applied to the digits a (left) and b (right), worked out on the
\* integers: a quotient is the number that gives a when multiplied by b.
IsApplied(x, op, a, b) ==
  CASE op = "+" -> x = IntFloat(DigitVal(a) + DigitVal(b))
    [] op = "-" -> x = IntFloat(DigitVal(a) - DigitVal(b))
    [] op = "*" -> x = IntFloat(DigitVal(a) * DigitVal(b))
    [] op = "/" -> Norm(x.neg, x.m * DigitVal(b), x.e) = IntFloat(DigitVal(a))

\* After digit a, operator op, digit b, Equals from the initial state the
\* display is the string of op applied to a and b, no operator is pending
\* and the calculator waits for an operand.
DigitOpDigitEquals ==
  \A a \in Digits, b \in Digits, op \in Operators :
    hist = <<a, op, b, "=">> =>
      /\ float(model.display_value).ok
      /\ IsApplied(float(model.display_value).v, op, a, b)
      /\ model.display_value = str(float(model.display_value).v)
      /\ display_var = model.display_value
      /\ model.current_operation = None
      /\ model.waiting_for_operand

\* C2 as amended: as DigitOpDigitEquals, the string being Python's str of
\* the float result, so that 5 + 3 = shows "8.0".
C2_DigitOpDigitEquals ==
  /\ DigitOpDigitEquals
  /\ hist = <<"5", "+", "3", "=">> => model.display_value = <<"8", ".", "0">>

\* C2 as stated: 5 + 3 = shows exactly "8".
C2_Original ==
  /\ DigitOpDigitEquals
  /\ hist = <<"5", "+", "3", "=">> => model.display_value = <<"8">>

\* 7 - 2 = has been clicked: a case where the order of the operands shows.
C2_Witness ==
  /\ hist = <<"7", "-", "2", "=">>
  /\ model.display_value = <<"5", ".", "0">>

\* An operator clicked while another is pending and a right operand has
\* been entered: the pending calculation is resolved first, its result is
\* shown and stored, and only then the new operator is pending.
ResolvedBeforeStored ==
  [][ (/\ model.current_operation # None
       /\ ~model.waiting_for_operand
       /\ \E t \in Operators : Click(t)
       /\ last'.exc = "none")
        => LET result == calculator_ops_calculate(model.current_operation,
                           model.stored_value, float(model.display_value).v)
           IN  /\ model'.display_value = str(result.v)
               /\ display_var' = str(result.v)
               /\ model'.stored_value = result.v
               /\ model'.current_operation = last'.text
               /\ model'.waiting_for_operand ]_vars

\* C3 as amended: as ResolvedBeforeStored, and 5 * 4 + 1 = shows "21.0".
C3_ResolvedBeforeStored ==
  /\ ResolvedBeforeStored
  /\ [][hist' = <<"5", "*", "4", "+", "1", "=">>
          => model'.display_value = <<"2", "1", ".", "0">>]_vars

\* C3 as stated: 5 * 4 + 1 = shows exactly "21".
C3_Original ==
  /\ ResolvedBeforeStored
  /\ [][hist' = <<"5", "*", "4", "+", "1", "=">>
          => model'.display_value = <<"2", "1">>]_vars

\* 5 * 4 + 1 = has been clicked through: (5 * 4) + 1 and not 5 * (4 + 1).
C3_Witness ==
  /\ hist = <<"5", "*", "4", "+", "1", "=">>
  /\ float(model.display_value).v = IntFloat(21)

\* C4: after Clear the state is the one created at startup, whatever it
\* was before: display "0", no pending operator, waiting for an operand,
\* stored operand 0.
C4_ClearResets ==
  last.text = "C" =>
    /\ model = reset
    /\ model.display_value = <<"0">>
    /\ model.current_operation = None
    /\ model.waiting_for_operand
    /\ model.stored_value = Zero
    /\ display_var = <<"0">>

\* Clear has been clicked with 5 stored, + pending and 3 on the display.
C4_Witness ==
  /\ last.text = "C"
  /\ last.prior = <<"5", "+", "3">>
  /\ model = reset

\* The number of characters c in s.
Count(s, c) == Cardinality({i \in 1..Len(s) : s[i] = c})

\* C5: display_value never holds more than one decimal point.
C5_OneDecimalPoint ==
  /\ Count(model.display_value, ".") <= 1
  /\ Count(display_var, ".") <= 1

\* Decimal has been clicked twice within one entry.
C5_Witness ==
  /\ last.prior = <<"1", ".">>
  /\ last.text = "."
  /\ model.display_value = <<"1", ".">>

\* The buttons whose handlers evaluate float(display_value).
Calculating == Operators \cup {"=", "+/-", "%"}

\* C6: no click makes float(display_value) fail: whenever Operator,
\* Equals, SignChange or Percentage parses display_value for a
\* calculation, it is the text of a finite number.
C6_AlwaysParseable ==
  [][(\E t \in Calculating : Click(t)) => last'.exc # "ParseError"]_vars

\* C7: an error is shown exactly when Equals or an Operator resolves a
\* pending "/" whose freshly entered right operand parses to zero; no
\* other button and no other state of Equals or Operator shows one.
C7_ErrorIffDivisionByZero ==
  [][ErrorShown' <=>
       (DivisionByZeroPending /\ \E t \in Operators \cup {"="} : Click(t))]_vars

\* C8: after the digits d1 .. dn clicked in a row from a state that waited
\* for an operand, display_value is d1 .. dn with its leading zeros, the
\* calculator no longer waits and the pending operation and the stored
\* operand are the ones of that state.
C8_DigitsConcatenated ==
  entry.on =>
    /\ entry.digits # <<>>
    /\ model.display_value = entry.digits
    /\ display_var = entry.digits
    /\ ~model.waiting_for_operand
    /\ model.current_operation = entry.operation
    /\ model.stored_value = entry.stored

\* 0 then 7 have been clicked after 5 and an operator: the leading zero is
\* kept and the operator and 5 are still stored.
C8_Witness ==
  /\ entry.on
  /\ entry.digits = <<"0", "7">>
  /\ entry.operation = "-"
  /\ entry.stored = IntFloat(5)
  /\ model.display_value = <<"0", "7">>

\* x with the other sign.
Negated(x) == [x EXCEPT !.neg = ~x.neg]

\* A sign change puts the string of the negated value on the display, and
\* two of them in a row leave the string of the value that was shown
\* before them.
SignChangeNegates ==
  /\ sign_run.n >= 1 => float(sign_run.before).ok
  /\ sign_run.n = 1 =>
       /\ float(model.display_value).ok
       /\ float(model.display_value).v = Negated(float(sign_run.before).v)
       /\ model.display_value = str(Negated(float(sign_run.before).v))
  /\ sign_run.n = 2 =>
       model.display_value = str(float(sign_run.before).v)

\* C9 as amended: as SignChangeNegates, the strings being Python's str of
\* a float: 9 then SignChange shows "-9.0" and a second SignChange "9.0".
C9_SignChange ==
  /\ SignChangeNegates
  /\ sign_run.before = <<"9">> =>
       /\ sign_run.n = 1 => model.display_value = <<"-", "9", ".", "0">>
       /\ sign_run.n = 2 => model.display_value = <<"9", ".", "0">>

\* C9 as stated: 9 then SignChange shows "-9", and two sign changes in a
\* row bring back the display_value shown before them.
C9_Original ==
  /\ sign_run.n = 1 =>
       /\ float(model.display_value).ok
       /\ float(model.display_value).v = Negated(float(sign_run.before).v)
  /\ sign_run.before = <<"9">> /\ sign_run.n = 1 =>
       model.display_value = <<"-", "9">>
  /\ sign_run.n = 2 => model.display_value = sign_run.before

\* 9 and two sign changes have been clicked.
C9_Witness ==
  /\ sign_run.n = 2
  /\ sign_run.before = <<"9">>
  /\ hist = <<"9", "+/-", "+/-">>
  /\ float(model.display_value).v = IntFloat(9)

\* C10: a division by zero makes the controller show the error first, with
\* the model and the screen still as they were before the click, then
\* clear the model, then update the display with "0"; it makes no other
\* call.
C10_ErrorThenResetThenRender ==
  [][last'.exc = "DivisionByZero" =>
       /\ Len(effects') = 3
       /\ effects'[1] = Effect("show_error", model, display_var)
       /\ effects'[2] = Effect("clear", reset, display_var)
       /\ effects'[3] = Effect("update_display", reset, <<"0">>)]_vars

\* 8 / 0 + has been clicked: the error was shown with "/" still pending, 8
\* stored and 0 on the screen.
C10_Witness ==
  /\ last.exc = "DivisionByZero"
  /\ last.prior = <<"8", "/", "0">>
  /\ last.text = "+"
  /\ effects[1].call = "show_error"
  /\ effects[1].model.current_operation = "/"
  /\ effects[1].model.stored_value = IntFloat(8)
  /\ effects[1].view = <<"0">>

\* The whole number x / 10^k, for k at most the exponent of x.
Scaled(x, k) == Signed(x) * Pow10(x.e - k)

\* x is a + b, a - b, a * b or a / b, verified on whole numbers: a quotient
\* is the number that gives a when multiplied by b.
IsResult(x, op, a, b) ==
  CASE op = "+" -> LET k == Min(x.e, Min(a.e, b.e))
                   IN  Scaled(x, k) = Scaled(a, k) + Scaled(b, k)
    [] op = "-" -> LET k == Min(x.e, Min(a.e, b.e))
                   IN  Scaled(x, k) = Scaled(a, k) - Scaled(b, k)
    [] op = "*" -> LET k == Min(x.e, a.e + b.e)
                   IN  Scaled(x, k) = Signed(a) * Signed(b) * Pow10(a.e + b.e - k)
    [] op = "/" -> LET k == Min(x.e + b.e, a.e)
                   IN  Signed(x) * Signed(b) * Pow10(x.e + b.e - k) = Scaled(a, k)

\* A click that makes CalculatorModel.calculate call calculator_ops with
\* the pending operation, the stored operand and the parsed display.
Resolving ==
  /\ model.current_operation # None
  /\ ~model.waiting_for_operand
  /\ float(model.display_value).ok
  /\ \E t \in Operators \cup {"="} : Click(t)

\* C11: calculate(op, a, b), called with a the stored operand and b the
\* operand on the display, gives a + b, a - b, a * b, a / b for +, -, *, /
\* and raises the division by zero error exactly when op is / and b is 0.
C11_CalculateContract ==
  /\ [][Resolving =>
          IF model.current_operation = "/" /\ float(model.display_value).v.m = 0
            THEN last'.exc = "DivisionByZero"
            ELSE /\ last'.exc = "none"
                 /\ float(model'.display_value).ok
                 /\ IsResult(float(model'.display_value).v,
                             model.current_operation, model.stored_value,
                             float(model.display_value).v)]_vars
  /\ [][last'.exc = "DivisionByZero" =>
          /\ Resolving
          /\ model.current_operation = "/"
          /\ float(model.display_value).v.m = 0]_vars

\* 7 - 2 = has been resolved with 7 on the left: 5 and not -5.
C11_Witness ==
  /\ last.prior = <<"7", "-", "2">>
  /\ last.text = "="
  /\ last.exc = "none"
  /\ model.stored_value = IntFloat(7)
  /\ float(model.display_value).v = IntFloat(5)

\* C12: Percentage puts on the display the string of the displayed value
\* divided by 100 (the value that gives the displayed one when multiplied
\* by 100), and 5, 0, Percentage from the initial state shows "0.5".
C12_Percentage ==
  /\ [][Click("%") /\ last'.exc = "none" =>
          /\ float(model.display_value).ok
          /\ float(model'.display_value).ok
          /\ IsResult(float(model'.display_value).v, "/",
                      float(model.display_value).v, IntFloat(100))
          /\ model'.display_value = str(float(model'.display_value).v)
          /\ display_var' = model'.display_value]_vars
  /\ [][hist' = <<"5", "0", "%">> =>
          model'.display_value = <<"0", ".", "5">>]_vars

\* 5, 0, Percentage have been clicked.
C12_Witness ==
  /\ hist = <<"5", "0", "%">>
  /\ last.text = "%"
  /\ model.display_value = <<"0", ".", "5">>

\* C13: an Operator clicked right after an Operator replaces the pending
\* operation and nothing else: no calculation is made, and display_value,
\* stored_value and waiting_for_operand (true) stay as they were; so
\* 5 + * 3 = computes 5 * 3.
C13_OperatorReplaced ==
  /\ [][last.text \in Operators /\ (\E t \in Operators : Click(t)) =>
          /\ last'.exc = "none"
          /\ model'.current_operation = last'.text
          /\ model'.display_value = model.display_value
          /\ model'.stored_value = model.stored_value
          /\ model'.waiting_for_operand
          /\ model.waiting_for_operand
          /\ display_var' = display_var]_vars
  /\ [][hist' = <<"5", "+", "*", "3", "=">> =>
          /\ float(model'.display_value).v = IntFloat(15)
          /\ model'.current_operation = None]_vars

\* 5 + * 3 = has been clicked and shows 15.
C13_Witness ==
  /\ hist = <<"5", "+", "*", "3", "=">>
  /\ float(model.display_value).v = IntFloat(15)

\* C14: Decimal leaves the whole state as it is when display_value holds a
\* point, waiting for an operand or not; otherwise it makes display_value
\* "0." and stops waiting if the calculator waited for an operand, and
\* appends a point if not.  It never changes the pending operation or the
\* stored operand and raises no error.
C14_Decimal ==
  [][Click(".") =>
       /\ last'.exc = "none"
       /\ model'.current_operation = model.current_operation
       /\ model'.stored_value = model.stored_value
       /\ IF Count(model.display_value, ".") > 0
            THEN model' = model /\ display_var' = display_var
          ELSE IF model.waiting_for_operand
            THEN /\ model'.display_value = <<"0", ".">>
                 /\ ~model'.waiting_for_operand
            ELSE /\ model'.display_value = model.display_value \o <<".">>
                 /\ ~model'.waiting_for_operand]_vars

\* Decimal has been ignored while the calculator waited for an operand:
\* ".", "+", "." leaves "0." on the display.
C14_Witness ==
  /\ last.prior = <<".", "+">>
  /\ last.text = "."
  /\ model.waiting_for_operand
  /\ model.current_operation = "+"
  /\ model.display_value = <<"0", ".">>

\* C15: Equals clicked with no pending operation, or while the calculator
\* waits for an operand, changes no field of the model nor the screen and
\* raises no error; so with no pending operation it does not start to
\* wait for an operand, and 5 + = leaves + pending and "5" displayed.
C15_EqualsNoOp ==
  /\ [][Click("=") /\ (model.current_operation = None
                         \/ model.waiting_for_operand) =>
          /\ last'.exc = "none"
          /\ model' = model
          /\ display_var' = display_var]_vars
  /\ [][hist' = <<"5", "+", "=">> =>
          /\ model'.current_operation = "+"
          /\ model'.display_value = <<"5">>]_vars

\* Equals has been clicked after 5 with no pending operation, and the next
\* digit would still be appended.
C15_Witness ==
  /\ last.prior = <<"5">>
  /\ last.text = "="
  /\ model.current_operation = None
  /\ ~model.waiting_for_operand
  /\ model.display_value = <<"5">>

\* Equals has just resolved digit, operator, digit clicked from the initial
\* state: its result is on the display.
EqualsResolved ==
  /\ last.text = "="
  /\ last.exc = "none"
  /\ Len(hist) = 4
  /\ hist[1] \in Digits /\ hist[2] \in Operators /\ hist[3] \in Digits

\* C16: right after an Equals that gave a result, an Operator stores the
\* displayed result as the left operand and becomes pending, and a Digit
\* replaces the result on the display instead of being appended to it; so
\* 5 + 3 = * 2 = gives 16.
C16_ResultReused ==
  /\ [][EqualsResolved /\ (\E t \in Operators : Click(t)) =>
          /\ last'.exc = "none"
          /\ float(model.display_value).ok
          /\ model'.stored_value = float(model.display_value).v
          /\ IsApplied(model'.stored_value, hist[2], hist[1], hist[3])
          /\ model'.current_operation = last'.text
          /\ model'.waiting_for_operand
          /\ model'.display_value = model.display_value]_vars
  /\ [][EqualsResolved /\ (\E t \in Digits : Click(t)) =>
          /\ model'.display_value = <<last'.text>>
          /\ ~model'.waiting_for_operand
          /\ model'.current_operation = None]_vars
  /\ [][hist' = <<"5", "+", "3", "=", "*", "2", "=">> =>
          float(model'.display_value).v = IntFloat(16)]_vars

\* 5 + 3 = * 2 = has been clicked: (5 + 3) * 2 is displayed.
C16_Witness ==
  /\ hist = <<"5", "+", "3", "=", "*", "2", "=">>
  /\ float(model.display_value).v = IntFloat(16)
  /\ model.stored_value = IntFloat(8)

\* C17: once a click is handled to the end, the text on the screen is the
\* display_value of the model, also after an ignored Decimal, an Equals
\* with nothing to calculate or a division by zero; at startup both are
\* "0".
C17_ViewShowsModel ==
  /\ display_var = model.display_value
  /\ last.text = "" => display_var = <<"0">>

\* The screen shows the "0" of the reset model after 9 / 0 = raised the
\* division by zero error.
C17_Witness ==
  /\ last.prior = <<"9", "/", "0">>
  /\ last.text = "="
  /\ last.exc = "DivisionByZero"
  /\ display_var = model.display_value
  /\ display_var = <<"0">>

\* C18: SignChange and Percentage change display_value only: the pending
\* operation, the stored operand and waiting_for_operand are as before; so
\* the next Digit replaces the converted value if the calculator waits for
\* an operand and is appended to it if not.
C18_SignPercentFrame ==
  /\ [][Click("+/-") \/ Click("%") =>
          /\ model'.current_operation = model.current_operation
          /\ model'.stored_value = model.stored_value
          /\ model'.waiting_for_operand = model.waiting_for_operand]_vars
  /\ [][last.text \in {"+/-", "%"} /\ (\E d \in Digits : Click(d)) =>
          model'.display_value =
            IF model.waiting_for_operand THEN <<last'.text>>
            ELSE model.display_value \o <<last'.text>>]_vars

\* C19: Equals clicked right after Equals changes no field of the model
\* nor the screen and raises no error: two Equals in a row leave the state
\* that one leaves.
C19_EqualsIdempotent ==
  [][last.text = "=" /\ Click("=") =>
       /\ last'.exc = "none"
       /\ model' = model
       /\ display_var' = display_var]_vars

\* Equals has been clicked a second time on the result of 5 + 3.
C19_Witness ==
  /\ last.prior = <<"5", "+", "3", "=">>
  /\ last.text = "="
  /\ last.exc = "none"
  /\ model.display_value = <<"8", ".", "0">>
  /\ model.current_operation = None

====
